---- MODULE Spec2Model ----
(***************************************************************************)
(* Handle ownership layer of phantomos-sys (src/src/handle.rs):            *)
(* OwnedHandle, BorrowedHandle, HandleRef and the SharedHandle cache,      *)
(* together with the kernel calls they issue.                              *)
(***************************************************************************)
EXTENDS Integers, FiniteSets, Sequences, Bags, TLC

\* ---------------------------------------------------------------- bounds
MaxHandle == 2
NThreads == 2
MaxTakes == 1
MaxBorrows == 2
MaxFailures == 1
MaxNulls == 1

\* ------------------------------------------------------------ value sets
\* HandlePtr::null(), the distinguished "absent" handle value
Null == 0

ValidHandles == 1..MaxHandle
AllHandles == {Null} \cup ValidHandles
Threads == 1..NThreads
\* values of the kernel's shareable token (sys::SharedHandle)
Tokens == {"tokA", "tokB"}
\* result codes of the kernel calls: zero is success
Success == 0
ErrorCodes == {-1, -2}
\* the error of a failed TlsKey::try_alloc
AllocError == -3

\* the closed set of kinds that implement HandleType
Kinds == {"Thread", "Debug", "SecurityContext", "IO", "File", "Device"}
NoKind == "none"

\* the foreign destruction calls
Destructors ==
    {"DetachThread", "DebugDetach", "DestroySecurityContext", "CloseIOStream",
     "CloseDevice"}

\* destroy, were Device closed by its own CloseDevice
destroy_kind_specific(kind) ==
    CASE kind = "Thread" -> "DetachThread"
      [] kind = "Debug" -> "DebugDetach"
      [] kind = "SecurityContext" -> "DestroySecurityContext"
      [] kind = "IO" -> "CloseIOStream"
      [] kind = "File" -> "CloseIOStream"
      [] kind = "Device" -> "CloseDevice"

\* destroy, were the Thread and Debug destructors exchanged
destroy_swapped(kind) ==
    CASE kind = "Thread" -> "DebugDetach"
      [] kind = "Debug" -> "DetachThread"
      [] kind = "SecurityContext" -> "DestroySecurityContext"
      [] kind = "IO" -> "CloseIOStream"
      [] kind = "File" -> "CloseIOStream"
      [] kind = "Device" -> "CloseIOStream"

\* <T as HandleType>::destroy: the foreign call each kind's destroy makes
destroy(kind) ==
    CASE kind = "Thread" -> "DetachThread"
      [] kind = "Debug" -> "DebugDetach"
      [] kind = "SecurityContext" -> "DestroySecurityContext"
      [] kind = "IO" -> "CloseIOStream"
      [] kind = "File" -> "CloseIOStream"
      [] kind = "Device" -> "CloseIOStream"

\* HandlePtr::cast: a reinterpretation of the same value under another kind
cast(hdl) == hdl

\* the UpcastHandle relation: which kind may be viewed as which
UpcastHandle(T, U) == T \in {"File", "Device"} /\ U = "IO"

\* Error::from_code: zero is success, anything else an error
from_code(code) == IF code = Success THEN [ok |-> TRUE, err |-> Success]
                   ELSE [ok |-> FALSE, err |-> code]

\* the result codes a destruction call may return
DestroyCodes == {Success} \cup ErrorCodes

\* destroy, were the call's result code turned into a Result and unwrapped
destroy_result_unwrapped(code) ==
    [code |-> code, completed |-> from_code(code).ok]

\* `DetachThread(ptr);` and the like: the result code of the destruction
\* call is discarded, destroy returns unit whatever the code
destroy_result(code) == [code |-> code, completed |-> TRUE]

\* ----------------------------------------------------------------- state
VARIABLES
    owned,          \* live OwnedHandle wrappers: handle value -> kind
    borrowed,       \* live BorrowedHandle wrappers (a bag)
    undestroyed,    \* handle value -> take_ownership calls on it, less the
                    \* release_ownership calls and the destruction calls
    ntakes,         \* take_ownership calls so far
    cache,          \* the live SharedHandle, or NoCache
    slot,           \* thread -> value of the thread's TLS slot of the cache
    frame,          \* thread -> the call the thread is inside
    upgradeCalls,   \* thread -> UpgradeSharedHandle calls for the live cache
    upgradeOks,     \* thread -> how many of them returned success
    nfailures,      \* UpgradeSharedHandle calls that failed so far
    last,           \* the last step: what it returned and the kernel calls
                    \* it issued
    dropped         \* the last step: how each destruction call it issued
                    \* ended (the code the kernel returned, and whether
                    \* destroy went on to return)

vars == <<owned, borrowed, undestroyed, ntakes, cache, slot, frame,
          upgradeCalls, upgradeOks, nfailures, last, dropped>>

NoCache == [live |-> FALSE]
Idle == [pc |-> "idle"]

\* a kernel call: the foreign function and its handle or token argument
Call(fn, arg) == [fn |-> fn, arg |-> arg]

\* what a step leaves to observe: the kind T of the OwnedHandle<T> it
\* consumed (NoKind when it consumed none), the Result it returned (Ok(val) or
\* Err(val); Ok(Null) when it returns no handle) and the kernel calls it issued
Step(kind, ok, val, calls) ==
    [kind |-> kind, ok |-> ok, val |-> val, calls |-> calls]

\* the destruction calls among `calls` whose argument is `h`
Destructions(calls, h) ==
    Cardinality({i \in DOMAIN calls :
                    calls[i].fn \in Destructors /\ calls[i].arg = h})

\* `undestroyed` after the kernel calls `calls` were issued
AfterCalls(calls) ==
    [h \in AllHandles |-> undestroyed[h] - Destructions(calls, h)]

\* the BorrowedHandle wrappers whose lifetime is tied to the owner of `h`
BorrowsOf(h) == {b \in BagToSet(borrowed) : b.owner = h}

Init ==
    /\ owned = [h \in AllHandles |-> NoKind]
    /\ borrowed = EmptyBag
    /\ undestroyed = [h \in AllHandles |-> 0]
    /\ ntakes = 0
    /\ cache = NoCache
    /\ slot = [t \in Threads |-> Null]
    /\ frame = [t \in Threads |-> Idle]
    /\ upgradeCalls = [t \in Threads |-> 0]
    /\ upgradeOks = [t \in Threads |-> 0]
    /\ nfailures = 0
    /\ last = Step(NoKind, TRUE, Null, <<>>)
    /\ dropped = <<>>

\* --------------------------------------------------- Ownership wrapper
\* the HandleRef an OwnedHandle derefs to
RefOfOwned(h) == [owner |-> h, kind |-> owned[h], hdl |-> h]

\* every live HandleRef: the owners' and the Borrow wrappers'
LiveRefs ==
    {RefOfOwned(h) : h \in {x \in AllHandles : owned[x] # NoKind}}
        \cup BagToSet(borrowed)

\* a thread is inside share() and holds the wrapper of `h` as its argument
HeldByShare(h) ==
    \E t \in Threads : frame[t].pc = "ShareHandle" /\ frame[t].hdl = h

\* Drop, were it to call nothing
drop_nothing(kind, hdl) == <<>>

\* impl Drop for OwnedHandle: the kernel calls it issues, one call of the
\* kind's destroy on the wrapper's value
drop(kind, hdl) == <<Call(destroy(kind), hdl)>>

\* OwnedHandle::take_ownership(hdl), for a value no live wrapper owns
take_ownership(kind, hdl) ==
    /\ owned[hdl] = NoKind
    /\ ~HeldByShare(hdl)
    /\ ntakes < MaxTakes
    /\ ntakes' = ntakes + 1
    /\ owned' = [owned EXCEPT ![hdl] = kind]
    /\ undestroyed' = [undestroyed EXCEPT ![hdl] = @ + 1]
    /\ last' = Step(NoKind, TRUE, Null, <<>>)
    /\ dropped' = <<>>
    /\ UNCHANGED <<borrowed, cache, slot, frame, upgradeCalls, upgradeOks,
                   nfailures>>

\* release_ownership, were the wrapper not forgotten: its Drop runs as well
release_ownership_dropping(hdl) ==
    /\ owned[hdl] # NoKind
    /\ BorrowsOf(hdl) = {}
    /\ LET ptr == RefOfOwned(hdl).hdl
           calls == drop(owned[hdl], ptr) IN
        /\ owned' = [owned EXCEPT ![hdl] = NoKind]
        /\ undestroyed' =
              [AfterCalls(calls) EXCEPT ![hdl] = @ - 1]
        /\ last' = Step(owned[hdl], TRUE, ptr, calls)
    /\ \E ret \in DestroyCodes : dropped' = <<destroy_result(ret)>>
    /\ UNCHANGED <<borrowed, ntakes, cache, slot, frame, upgradeCalls,
                   upgradeOks, nfailures>>

\* OwnedHandle::release_ownership(self): read the value, forget the wrapper
\* (its Drop never runs), return the value
release_ownership(hdl) ==
    /\ owned[hdl] # NoKind
    /\ BorrowsOf(hdl) = {}
    /\ LET ptr == RefOfOwned(hdl).hdl IN
        /\ owned' = [owned EXCEPT ![hdl] = NoKind]
        /\ undestroyed' = [undestroyed EXCEPT ![hdl] = @ - 1]
        /\ last' = Step(owned[hdl], TRUE, ptr, <<>>)
    /\ dropped' = <<>>
    /\ UNCHANGED <<borrowed, ntakes, cache, slot, frame, upgradeCalls,
                   upgradeOks, nfailures>>

\* an OwnedHandle goes out of scope: its Drop runs
DropOwned(hdl) ==
    /\ owned[hdl] # NoKind
    /\ BorrowsOf(hdl) = {}
    /\ LET calls == drop(owned[hdl], RefOfOwned(hdl).hdl) IN
        /\ undestroyed' = AfterCalls(calls)
        /\ last' = Step(owned[hdl], TRUE, Null, calls)
    /\ owned' = [owned EXCEPT ![hdl] = NoKind]
    /\ \E ret \in DestroyCodes : dropped' = <<destroy_result(ret)>>
    /\ UNCHANGED <<borrowed, ntakes, cache, slot, frame, upgradeCalls,
                   upgradeOks, nfailures>>

\* ------------------------------------------------------ Borrow wrapper
\* HandleRef::borrow(&self): BorrowedHandle(self.0, PhantomData)
borrow(src) ==
    /\ src \in LiveRefs
    /\ BagCardinality(borrowed) < MaxBorrows
    /\ LET b == [owner |-> src.owner, kind |-> src.kind, hdl |-> src.hdl] IN
        /\ borrowed' = borrowed (+) SetToBag({b})
        /\ last' = Step(NoKind, TRUE, b.hdl, <<>>)
    /\ dropped' = <<>>
    /\ UNCHANGED <<owned, undestroyed, ntakes, cache, slot, frame,
                   upgradeCalls, upgradeOks, nfailures>>

\* upcast, were the value not carried over
upcast_null(src, U) ==
    /\ src \in LiveRefs
    /\ UpcastHandle(src.kind, U)
    /\ BagCardinality(borrowed) < MaxBorrows
    /\ LET b == [owner |-> src.owner, kind |-> U, hdl |-> Null] IN
        /\ borrowed' = borrowed (+) SetToBag({b})
        /\ last' = Step(NoKind, TRUE, b.hdl, <<>>)
    /\ dropped' = <<>>
    /\ UNCHANGED <<owned, undestroyed, ntakes, cache, slot, frame,
                   upgradeCalls, upgradeOks, nfailures>>

\* HandleRef::upcast::<U>(&self) where T: UpcastHandle<U>:
\* BorrowedHandle(self.0.cast(), PhantomData)
upcast(src, U) ==
    /\ src \in LiveRefs
    /\ UpcastHandle(src.kind, U)
    /\ BagCardinality(borrowed) < MaxBorrows
    /\ LET b == [owner |-> src.owner, kind |-> U, hdl |-> cast(src.hdl)] IN
        /\ borrowed' = borrowed (+) SetToBag({b})
        /\ last' = Step(NoKind, TRUE, b.hdl, <<>>)
    /\ dropped' = <<>>
    /\ UNCHANGED <<owned, undestroyed, ntakes, cache, slot, frame,
                   upgradeCalls, upgradeOks, nfailures>>

\* impl Clone / Copy for BorrowedHandle: a second wrapper with the same fields
clone(b) ==
    /\ b \in BagToSet(borrowed)
    /\ BagCardinality(borrowed) < MaxBorrows
    /\ borrowed' = borrowed (+) SetToBag({b})
    /\ last' = Step(NoKind, TRUE, b.hdl, <<>>)
    /\ dropped' = <<>>
    /\ UNCHANGED <<owned, undestroyed, ntakes, cache, slot, frame,
                   upgradeCalls, upgradeOks, nfailures>>


\* a BorrowedHandle going out of scope, had it the Drop of an OwnedHandle
DropBorrowed_destroying(b) ==
    /\ b \in BagToSet(borrowed)
    /\ borrowed' = borrowed (-) SetToBag({b})
    /\ LET calls == drop(b.kind, b.hdl) IN
        /\ undestroyed' = AfterCalls(calls)
        /\ last' = Step(NoKind, TRUE, Null, calls)
    /\ \E ret \in DestroyCodes : dropped' = <<destroy_result(ret)>>
    /\ UNCHANGED <<owned, ntakes, cache, slot, frame, upgradeCalls,
                   upgradeOks, nfailures>>

\* a BorrowedHandle goes out of scope: it has no Drop, nothing is called
DropBorrowed(b) ==
    /\ b \in BagToSet(borrowed)
    /\ borrowed' = borrowed (-) SetToBag({b})
    /\ last' = Step(NoKind, TRUE, Null, <<>>)
    /\ dropped' = <<>>
    /\ UNCHANGED <<owned, undestroyed, ntakes, cache, slot, frame,
                   upgradeCalls, upgradeOks, nfailures>>

\* -------------------------------------------------- Shared-handle cache
NoShareInFlight == \A t \in Threads : frame[t].pc # "ShareHandle"

\* TlsKey::try_alloc: a fresh key, every thread's slot of it null
fresh_slots == [t \in Threads |-> Null]

\* share, were the key allocated only after the ShareHandle call
share_alloc_failed_late(t, hdl) ==
    /\ frame[t] = Idle
    /\ owned[hdl] # NoKind
    /\ BorrowsOf(hdl) = {}
    /\ ~cache.live
    /\ NoShareInFlight
    /\ owned' = [owned EXCEPT ![hdl] = NoKind]
    /\ LET calls == <<Call("ShareHandle", cast(RefOfOwned(hdl).hdl))>>
                        \o drop(owned[hdl], RefOfOwned(hdl).hdl) IN
        /\ undestroyed' = AfterCalls(calls)
        /\ last' = Step(owned[hdl], FALSE, AllocError, calls)
    /\ \E ret \in DestroyCodes : dropped' = <<destroy_result(ret)>>
    /\ UNCHANGED <<borrowed, ntakes, cache, slot, frame, upgradeCalls,
                   upgradeOks, nfailures>>

\* share, `TlsKey::try_alloc()?` failed: the error is returned at once and
\* the argument `file` goes out of scope
share_alloc_failed(t, hdl) ==
    /\ frame[t] = Idle
    /\ owned[hdl] # NoKind
    /\ BorrowsOf(hdl) = {}
    /\ ~cache.live
    /\ NoShareInFlight
    /\ owned' = [owned EXCEPT ![hdl] = NoKind]
    /\ LET calls == drop(owned[hdl], RefOfOwned(hdl).hdl) IN
        /\ undestroyed' = AfterCalls(calls)
        /\ last' = Step(owned[hdl], FALSE, AllocError, calls)
    /\ \E ret \in DestroyCodes : dropped' = <<destroy_result(ret)>>
    /\ UNCHANGED <<borrowed, ntakes, cache, slot, frame, upgradeCalls,
                   upgradeOks, nfailures>>

\* share, the key was allocated: ShareHandle is called on the wrapper's value
share(t, hdl) ==
    /\ frame[t] = Idle
    /\ owned[hdl] # NoKind
    /\ BorrowsOf(hdl) = {}
    /\ ~cache.live
    /\ NoShareInFlight
    /\ owned' = [owned EXCEPT ![hdl] = NoKind]
    /\ LET bare_hdl == cast(RefOfOwned(hdl).hdl) IN
        /\ frame' = [frame EXCEPT ![t] =
              [pc |-> "ShareHandle", kind |-> owned[hdl], hdl |-> hdl,
               bare_hdl |-> bare_hdl]]
        /\ last' = Step(NoKind, TRUE, Null,
                        <<Call("ShareHandle", bare_hdl)>>)
    /\ dropped' = <<>>
    /\ UNCHANGED <<borrowed, undestroyed, ntakes, cache, slot, upgradeCalls,
                   upgradeOks, nfailures>>

\* the failure return of share, were `file` forgotten instead of dropped
share_failed_leaking(t, code) ==
    /\ frame[t].pc = "ShareHandle"
    /\ ~from_code(code).ok
    /\ frame' = [frame EXCEPT ![t] = Idle]
    /\ last' = Step(frame[t].kind, FALSE, from_code(code).err, <<>>)
    /\ dropped' = <<>>
    /\ UNCHANGED <<owned, borrowed, undestroyed, ntakes, cache, slot,
                   upgradeCalls, upgradeOks, nfailures>>

\* share, ShareHandle returned a failure code: `?` returns the error and the
\* argument `file` goes out of scope
share_failed(t, code) ==
    /\ frame[t].pc = "ShareHandle"
    /\ ~from_code(code).ok
    /\ frame' = [frame EXCEPT ![t] = Idle]
    /\ LET calls == drop(frame[t].kind, frame[t].hdl) IN
        /\ undestroyed' = AfterCalls(calls)
        /\ last' = Step(frame[t].kind, FALSE, from_code(code).err,
                        calls)
    /\ \E ret \in DestroyCodes : dropped' = <<destroy_result(ret)>>
    /\ UNCHANGED <<owned, borrowed, ntakes, cache, slot, upgradeCalls,
                   upgradeOks, nfailures>>

\* share, were the creating thread's slot left unwritten
share_slots_unwritten(t, bare_hdl) == fresh_slots

\* `loc.get().write(bare_hdl)`: the calling thread's slot of the new key
share_slots(t, bare_hdl) == [fresh_slots EXCEPT ![t] = bare_hdl]

\* share, ShareHandle returned success with token `tok`: the creating
\* thread's slot is written, the cache is returned, and the argument `file`
\* goes out of scope. (`hdl.cast()` is a HandlePtr method, so `file.0` is
\* read as the Copy handle value: `file` itself is not moved from, nor
\* forgotten, and its Drop runs when share returns.)
share_succeeded(t, code, tok) ==
    /\ frame[t].pc = "ShareHandle"
    /\ from_code(code).ok
    /\ frame' = [frame EXCEPT ![t] = Idle]
    /\ slot' = share_slots(t, frame[t].bare_hdl)
    /\ cache' = [live |-> TRUE, token |-> tok, creator |-> t,
                 hdl |-> frame[t].hdl]
    /\ upgradeCalls' = [x \in Threads |-> 0]
    /\ upgradeOks' = [x \in Threads |-> 0]
    /\ LET calls == drop(frame[t].kind, frame[t].hdl) IN
        /\ undestroyed' = AfterCalls(calls)
        /\ last' = Step(frame[t].kind, TRUE, Null, calls)
    /\ \E ret \in DestroyCodes : dropped' = <<destroy_result(ret)>>
    /\ UNCHANGED <<owned, borrowed, ntakes, nfailures>>


\* try_get, were a value handed out of the slot taken out of it (the slot
\* reset to null)
try_get_cached_taking(t) ==
    /\ cache.live
    /\ frame[t] = Idle
    /\ slot[t] # Null
    /\ slot' = [slot EXCEPT ![t] = Null]
    /\ last' = Step(NoKind, TRUE, slot[t], <<>>)
    /\ dropped' = <<>>
    /\ UNCHANGED <<owned, borrowed, undestroyed, ntakes, cache, frame,
                   upgradeCalls, upgradeOks, nfailures>>

\* try_get, the slot is non-null: Ok(val), no kernel call
try_get_cached(t) ==
    /\ cache.live
    /\ frame[t] = Idle
    /\ slot[t] # Null
    /\ last' = Step(NoKind, TRUE, slot[t], <<>>)
    /\ dropped' = <<>>
    /\ UNCHANGED <<owned, borrowed, undestroyed, ntakes, cache, slot, frame,
                   upgradeCalls, upgradeOks, nfailures>>


\* try_get, were the upgrade call passed a token other than the cache's
try_get_upgrade_other_token(t) ==
    /\ cache.live
    /\ frame[t] = Idle
    /\ slot[t] = Null
    /\ upgradeCalls' = [upgradeCalls EXCEPT ![t] = @ + 1]
    /\ LET tok == CHOOSE x \in Tokens : x # cache.token IN
        /\ frame' = [frame EXCEPT ![t] =
                        [pc |-> "UpgradeSharedHandle", token |-> tok]]
        /\ last' = Step(NoKind, TRUE, Null,
                        <<Call("UpgradeSharedHandle", tok)>>)
    /\ dropped' = <<>>
    /\ UNCHANGED <<owned, borrowed, undestroyed, ntakes, cache, slot,
                   upgradeOks, nfailures>>

\* try_get, were the upgrade call made whatever the slot holds
try_get_upgrade_always(t) ==
    /\ cache.live
    /\ frame[t] = Idle
    /\ upgradeCalls' = [upgradeCalls EXCEPT ![t] = @ + 1]
    /\ frame' = [frame EXCEPT ![t] =
                    [pc |-> "UpgradeSharedHandle", token |-> cache.token]]
    /\ last' = Step(NoKind, TRUE, Null,
                    <<Call("UpgradeSharedHandle", cache.token)>>)
    /\ dropped' = <<>>
    /\ UNCHANGED <<owned, borrowed, undestroyed, ntakes, cache, slot,
                   upgradeOks, nfailures>>

\* try_get, the slot is null: UpgradeSharedHandle is called with the token
try_get_upgrade(t) ==
    /\ cache.live
    /\ frame[t] = Idle
    /\ slot[t] = Null
    /\ upgradeCalls' = [upgradeCalls EXCEPT ![t] = @ + 1]
    /\ frame' = [frame EXCEPT ![t] =
                    [pc |-> "UpgradeSharedHandle", token |-> cache.token]]
    /\ last' = Step(NoKind, TRUE, Null,
                    <<Call("UpgradeSharedHandle", cache.token)>>)
    /\ dropped' = <<>>
    /\ UNCHANGED <<owned, borrowed, undestroyed, ntakes, cache, slot,
                   upgradeOks, nfailures>>



\* the failure return of try_get, were a "resolving" mark set for the call
\* left in place by the early return
upgrade_failed_marked(t, code) ==
    /\ frame[t].pc = "UpgradeSharedHandle"
    /\ ~from_code(code).ok
    /\ nfailures < MaxFailures
    /\ nfailures' = nfailures + 1
    /\ frame' = [frame EXCEPT ![t] = [pc |-> "resolving"]]
    /\ last' = Step(NoKind, FALSE, from_code(code).err, <<>>)
    /\ dropped' = <<>>
    /\ UNCHANGED <<owned, borrowed, undestroyed, ntakes, cache, slot,
                   upgradeCalls, upgradeOks>>

\* the failure return of try_get, were the upgrade call tried once more
\* before giving up
upgrade_failed_retrying(t, code) ==
    /\ frame[t].pc = "UpgradeSharedHandle"
    /\ ~from_code(code).ok
    /\ nfailures < MaxFailures
    /\ nfailures' = nfailures + 1
    /\ upgradeCalls' = [upgradeCalls EXCEPT ![t] = @ + 1]
    /\ last' = Step(NoKind, TRUE, Null,
                    <<Call("UpgradeSharedHandle", cache.token)>>)
    /\ dropped' = <<>>
    /\ UNCHANGED <<owned, borrowed, undestroyed, ntakes, cache, slot, frame,
                   upgradeOks>>

\* the failure return of try_get, were the slot written all the same
upgrade_failed_storing(t, code) ==
    /\ frame[t].pc = "UpgradeSharedHandle"
    /\ ~from_code(code).ok
    /\ nfailures < MaxFailures
    /\ nfailures' = nfailures + 1
    /\ frame' = [frame EXCEPT ![t] = Idle]
    /\ slot' = [slot EXCEPT ![t] = cache.hdl]
    /\ last' = Step(NoKind, FALSE, from_code(code).err, <<>>)
    /\ dropped' = <<>>
    /\ UNCHANGED <<owned, borrowed, undestroyed, ntakes, cache, upgradeCalls,
                   upgradeOks>>

\* try_get, UpgradeSharedHandle returned a failure code: `?` returns the error
upgrade_failed(t, code) ==
    /\ frame[t].pc = "UpgradeSharedHandle"
    /\ ~from_code(code).ok
    /\ nfailures < MaxFailures
    /\ nfailures' = nfailures + 1
    /\ frame' = [frame EXCEPT ![t] = Idle]
    /\ last' = Step(NoKind, FALSE, from_code(code).err, <<>>)
    /\ dropped' = <<>>
    /\ UNCHANGED <<owned, borrowed, undestroyed, ntakes, cache, slot,
                   upgradeCalls, upgradeOks>>


\* try_get, were the upgraded value written to every thread's slot (a slot
\* shared by the threads instead of a thread-local one)
upgrade_stored_everywhere(t, hdl) == [u \in Threads |-> hdl]

\* try_get, were the upgraded value returned without being stored
upgrade_stored_nowhere(t, hdl) == slot

\* `self.1.get().write(hdl)`: the calling thread's slot
upgrade_stored(t, hdl) == [slot EXCEPT ![t] = hdl]

\* try_get, UpgradeSharedHandle returned success with handle `hdl`: the value
\* is stored in the calling thread's slot and returned
upgrade_succeeded(t, code, hdl) ==
    /\ frame[t].pc = "UpgradeSharedHandle"
    /\ from_code(code).ok
    /\ frame' = [frame EXCEPT ![t] = Idle]
    /\ slot' = upgrade_stored(t, hdl)
    /\ upgradeOks' = [upgradeOks EXCEPT ![t] = @ + 1]
    /\ last' = Step(NoKind, TRUE, hdl, <<>>)
    /\ dropped' = <<>>
    /\ UNCHANGED <<owned, borrowed, undestroyed, ntakes, cache, upgradeCalls,
                   nfailures>>

\* the SharedHandle goes out of scope (no thread is inside try_get, which
\* borrows it): it has no Drop of its own, no destruction call is issued
DropShared ==
    /\ cache.live
    /\ \A t \in Threads : frame[t] = Idle
    /\ cache' = NoCache
    /\ slot' = fresh_slots
    /\ last' = Step(NoKind, TRUE, Null, <<>>)
    /\ dropped' = <<>>
    /\ UNCHANGED <<owned, borrowed, undestroyed, ntakes, frame, upgradeCalls,
                   upgradeOks, nfailures>>

\* ----------------------------------------------------------- behaviours
Next ==
    \/ \E k \in Kinds, h \in ValidHandles : take_ownership(k, h)
    \/ \E h \in AllHandles : release_ownership(h)
    \/ \E h \in AllHandles : DropOwned(h)
    \/ \E src \in LiveRefs : borrow(src)
    \/ \E src \in LiveRefs, U \in Kinds : upcast(src, U)
    \/ \E b \in BagToSet(borrowed) : clone(b)
    \/ \E b \in BagToSet(borrowed) : DropBorrowed(b)
    \/ \E t \in Threads, h \in AllHandles : share_alloc_failed(t, h)
    \/ \E t \in Threads, h \in AllHandles : share(t, h)
    \/ \E t \in Threads, code \in ErrorCodes : share_failed(t, code)
    \/ \E t \in Threads, tok \in Tokens : share_succeeded(t, Success, tok)
    \/ \E t \in Threads : try_get_cached(t)
    \/ \E t \in Threads : try_get_upgrade(t)
    \/ \E t \in Threads, code \in ErrorCodes : upgrade_failed(t, code)
    \/ \E t \in Threads, h \in ValidHandles : upgrade_succeeded(t, Success, h)
    \/ DropShared

Spec == Init /\ [][Next]_vars


\* the same program with a kernel whose UpgradeSharedHandle may also report
\* success and hand back the null handle value (try_get does not look at the
\* value it is handed)
NextNull ==
    \/ Next
    \/ \E t \in Threads :
          /\ upgradeOks[t] < MaxNulls
          /\ upgrade_succeeded(t, Success, Null)

SpecNull == Init /\ [][NextNull]_vars


\* the Ownership wrappers and the cache alone: the program without the steps
\* of the Borrow wrappers, which touch neither a cache nor a slot nor a call
\* in progress
NextCache ==
    \/ \E k \in Kinds, h \in ValidHandles : take_ownership(k, h)
    \/ \E h \in AllHandles : release_ownership(h)
    \/ \E h \in AllHandles : DropOwned(h)
    \/ \E t \in Threads, h \in AllHandles : share_alloc_failed(t, h)
    \/ \E t \in Threads, h \in AllHandles : share(t, h)
    \/ \E t \in Threads, code \in ErrorCodes : share_failed(t, code)
    \/ \E t \in Threads, tok \in Tokens : share_succeeded(t, Success, tok)
    \/ \E t \in Threads : try_get_cached(t)
    \/ \E t \in Threads : try_get_upgrade(t)
    \/ \E t \in Threads, code \in ErrorCodes : upgrade_failed(t, code)
    \/ \E t \in Threads, h \in ValidHandles : upgrade_succeeded(t, Success, h)
    \/ DropShared

SpecCache == Init /\ [][NextCache]_vars

\* the Ownership and the Borrow wrappers alone: the program without the steps
\* of share and of the cache
NextBorrow ==
    \/ \E k \in Kinds, h \in ValidHandles : take_ownership(k, h)
    \/ \E h \in AllHandles : release_ownership(h)
    \/ \E h \in AllHandles : DropOwned(h)
    \/ \E src \in LiveRefs : borrow(src)
    \/ \E src \in LiveRefs, U \in Kinds : upcast(src, U)
    \/ \E b \in BagToSet(borrowed) : clone(b)
    \/ \E b \in BagToSet(borrowed) : DropBorrowed(b)

SpecBorrow == Init /\ [][NextBorrow]_vars

\* the program with threads that keep calling try_get while their slot is
\* null (an Unresolved thread that may start the upgrade call does so in the
\* end) and a kernel whose UpgradeSharedHandle does not fail for ever (an
\* upgrade call that is pending again and again returns success in the end)
Fairness ==
    \A t \in Threads :
        /\ WF_vars(try_get_upgrade(t))
        /\ SF_vars(\E h \in ValidHandles : upgrade_succeeded(t, Success, h))

\* the steps of the Ownership wrappers and of the cache, for wrappers of one
\* kind (share and try_get are generic in the kind, which decides only the
\* destructor that Drop calls; the Borrow wrappers, which touch neither a
\* cache nor a slot, are left out)
NextLive ==
    \/ \E h \in ValidHandles : take_ownership("File", h)
    \/ \E h \in AllHandles : release_ownership(h)
    \/ \E h \in AllHandles : DropOwned(h)
    \/ \E t \in Threads, h \in AllHandles : share_alloc_failed(t, h)
    \/ \E t \in Threads, h \in AllHandles : share(t, h)
    \/ \E t \in Threads, code \in ErrorCodes : share_failed(t, code)
    \/ \E t \in Threads, tok \in Tokens : share_succeeded(t, Success, tok)
    \/ \E t \in Threads : try_get_cached(t)
    \/ \E t \in Threads : try_get_upgrade(t)
    \/ \E t \in Threads, code \in ErrorCodes : upgrade_failed(t, code)
    \/ \E t \in Threads, h \in ValidHandles : upgrade_succeeded(t, Success, h)
    \/ DropShared

SpecLive == Init /\ [][NextLive]_vars /\ Fairness

\* ---------------------------------------------------------------- claims
\* a try_get call by thread t starts in this step (either branch)
TryGetBy(t) == try_get_cached(t) \/ try_get_upgrade(t)

NothingOwned == \A h \in AllHandles : owned[h] = NoKind

NoUpgradeYet == \A t \in Threads : upgradeCalls[t] = 0

\* C1: every handle taken by take_ownership and not handed back by
\* release_ownership has had exactly one destruction call issued for it once
\* no Ownership wrapper, no share call in progress and no cache holds it any
\* more: the takes not matched by a release or a destruction call are zero.
C1_DestroyedExactlyOnce ==
    \A h \in AllHandles :
        (/\ owned[h] = NoKind
         /\ ~HeldByShare(h)
         /\ ~(cache.live /\ cache.hdl = h))
            => undestroyed[h] = 0

\* C1 witness: the wrapper was consumed by a successful share, another thread
\* resolved the cache, and the cache has gone out of scope again.
C1_Witness ==
    /\ ntakes = 1
    /\ NothingOwned
    /\ NoShareInFlight
    /\ ~cache.live
    /\ \E t \in Threads : upgradeOks[t] = 1
    /\ \A h \in AllHandles : undestroyed[h] = 0

\* the destructor the specification assigns to each kind
MappedDestructor(kind) ==
    CASE kind = "Thread" -> "DetachThread"
      [] kind = "Debug" -> "DebugDetach"
      [] kind = "SecurityContext" -> "DestroySecurityContext"
      [] kind \in {"IO", "File", "Device"} -> "CloseIOStream"

\* C2: for each of the six kinds, an Ownership wrapper of handle h going out
\* of scope issues exactly one kernel call: the kind's mapped destructor,
\* applied to h; no other destructor is called.
C2_DropCallsMappedDestructor ==
    [][\A h \in AllHandles :
          DropOwned(h) =>
              last'.calls = <<Call(MappedDestructor(owned[h]), h)>>]_vars

\* C2 witness: a Debug wrapper of handle 2 was just dropped.
C2_Witness ==
    /\ ~cache.live
    /\ NoShareInFlight
    /\ NoUpgradeYet
    /\ NothingOwned
    /\ last = Step("Debug", TRUE, Null, <<Call("DebugDetach", 2)>>)

\* C3: release_ownership on the wrapper of h returns h and issues no
\* destruction call; and no step issues a destruction call for a handle that
\* no Ownership wrapper holds (live or as the argument of a running share), so
\* after the release nothing is destroyed unless h is taken again.
C3_ReleaseSuppressesDestruction ==
    [][/\ \A h \in AllHandles :
              release_ownership(h)
                  => last'.ok /\ last'.val = h /\ last'.calls = <<>>
       /\ \A h \in AllHandles :
              (owned[h] = NoKind /\ ~HeldByShare(h))
                  => Destructions(last'.calls, h) = 0]_vars

\* C3 witness: the only wrapper taken was released: its value came back and
\* the handle is accounted for without any destruction call.
C3_Witness ==
    /\ ntakes = 1
    /\ NothingOwned
    /\ NoShareInFlight
    /\ ~cache.live
    /\ NoUpgradeYet
    /\ last.kind \in Kinds
    /\ last.ok /\ last.val \in ValidHandles /\ last.calls = <<>>
    /\ undestroyed[last.val] = 0

\* C4: while a cache is live, the creating thread's slot holds the shared
\* handle H and no upgrade call was issued for that thread; every try_get of
\* the creating thread returns Ok(H) and issues no kernel call.
C4_CreatorNeverUpgrades ==
    /\ [](cache.live =>
            /\ slot[cache.creator] = cache.hdl
            /\ upgradeCalls[cache.creator] = 0)
    /\ [][\A t \in Threads :
            (cache.live /\ t = cache.creator /\ TryGetBy(t))
                => last' = Step(NoKind, TRUE, cache.hdl, <<>>)]_vars

\* C4 witness: the creator's try_get returned H while another thread is in
\* the middle of its own upgrade call.
C4_Witness ==
    /\ cache.live
    /\ NothingOwned
    /\ \E t \in Threads :
          /\ t # cache.creator
          /\ frame[t].pc = "UpgradeSharedHandle"
    /\ \A t \in Threads : t # cache.creator => slot[t] = Null
    /\ last = Step(NoKind, TRUE, cache.hdl, <<>>)

\* C5: for a thread other than the creator, the first try_get issues exactly
\* one upgrade call; when it succeeds with H' the call returns Ok(H') and the
\* slot holds H'; afterwards the slot keeps H' for the life of the cache and
\* every try_get of the thread returns Ok(H') with no further upgrade call.
C5_OtherThreadUpgradesOnce ==
    [][\A t \in Threads :
          /\ (cache.live /\ t # cache.creator /\ upgradeCalls[t] = 0
                /\ TryGetBy(t))
                => /\ last'.calls = <<Call("UpgradeSharedHandle", cache.token)>>
                   /\ upgradeCalls'[t] = 1
          /\ \A h \in AllHandles :
                upgrade_succeeded(t, Success, h)
                    => last' = Step(NoKind, TRUE, h, <<>>) /\ slot'[t] = h
          /\ (cache.live /\ t # cache.creator /\ upgradeOks[t] >= 1)
                => /\ cache'.live => slot'[t] = slot[t]
                   /\ upgradeCalls'[t] = upgradeCalls[t]
                   /\ TryGetBy(t)
                        => last' = Step(NoKind, TRUE, slot[t], <<>>)]_vars

\* C5 witness: a non-creator thread resolved with one upgrade call to a value
\* different from the shared handle, and a try_get of it returned that value.
C5_Witness ==
    /\ cache.live
    /\ NothingOwned
    /\ \E t \in Threads :
          /\ t # cache.creator
          /\ upgradeCalls[t] = 1 /\ upgradeOks[t] = 1
          /\ slot[t] # cache.hdl
          /\ frame[t] = Idle
          /\ last = Step(NoKind, TRUE, slot[t], <<>>)

\* C6: when ShareHandle returns a failure code, share returns that error and
\* the consumed handle is not leaked: a destruction call for it is issued in
\* that step, or an Ownership wrapper for it is back with the caller.
C6_ShareFailureDoesNotLeak ==
    [][\A t \in Threads, code \in ErrorCodes :
          share_failed(t, code) =>
              /\ ~last'.ok /\ last'.val = code
              /\ ~cache'.live
              /\ \/ Destructions(last'.calls, frame[t].hdl) >= 1
                 \/ owned'[frame[t].hdl] # NoKind]_vars

\* C6 witness: share just returned a kernel error and the handle's
\* destructor was called.
C6_Witness ==
    /\ last.kind \in Kinds
    /\ ~last.ok
    /\ last.val \in ErrorCodes
    /\ \E h \in ValidHandles : Destructions(last.calls, h) = 1
    /\ ~cache.live
    /\ NoShareInFlight

\* C7: when the upgrade call of a try_get fails, try_get returns that error
\* and the thread's slot stays null; a thread that is idle with a null slot
\* can always call try_get again, and that call issues a fresh upgrade call.
C7_FailedUpgradeStaysUnresolved ==
    /\ [][\A t \in Threads :
            /\ \A code \in ErrorCodes :
                  upgrade_failed(t, code)
                      => /\ last' = Step(NoKind, FALSE, code, <<>>)
                         /\ slot'[t] = Null
            /\ (cache.live /\ upgradeCalls[t] >= 1 /\ slot[t] = Null
                  /\ TryGetBy(t))
                  => /\ last'.calls =
                          <<Call("UpgradeSharedHandle", cache.token)>>
                     /\ upgradeCalls'[t] = upgradeCalls[t] + 1]_vars
    /\ [](\A t \in Threads :
            (cache.live /\ frame[t] = Idle /\ upgradeCalls[t] >= 1
                /\ t # cache.creator /\ upgradeOks[t] = 0)
                => slot[t] = Null /\ ENABLED try_get_upgrade(t))

\* C7 witness: a thread whose first upgrade failed is inside its second one.
C7_Witness ==
    /\ cache.live
    /\ \E t \in Threads :
          /\ upgradeCalls[t] = 2
          /\ upgradeOks[t] = 0
          /\ slot[t] = Null
          /\ frame[t].pc = "UpgradeSharedHandle"
    /\ last.calls = <<Call("UpgradeSharedHandle", cache.token)>>

\* C8: the destruction call of a dropped File or Device wrapper of handle h
\* is CloseIOStream(h), and no step ever calls a kind-specific close
\* (CloseDevice).
C8_FileAndDeviceCloseAsStream ==
    /\ [][\A h \in AllHandles :
            (owned[h] \in {"File", "Device"} /\ DropOwned(h))
                => last'.calls = <<Call("CloseIOStream", h)>>]_vars
    /\ [](\A i \in DOMAIN last.calls : last.calls[i].fn # "CloseDevice")

\* C8 witness: a Device wrapper of handle 1 was just dropped with a
\* CloseIOStream call on handle 1.
C8_Witness ==
    /\ ~cache.live
    /\ NoShareInFlight
    /\ NoUpgradeYet
    /\ NothingOwned
    /\ last = Step("Device", TRUE, Null, <<Call("CloseIOStream", 1)>>)

\* C9: upcast of a File or Device HandleRef to IO adds one Borrow wrapper of
\* kind IO whose raw value equals the source's raw value, and issues no
\* kernel call.
C9_UpcastPreservesValue ==
    [][\A src \in LiveRefs :
          (src.kind \in {"File", "Device"} /\ upcast(src, "IO"))
              => /\ \E b \in BagToSet(borrowed') :
                      /\ borrowed' = borrowed (+) SetToBag({b})
                      /\ b.kind = "IO"
                      /\ b.hdl = src.hdl
                 /\ last' = Step(NoKind, TRUE, src.hdl, <<>>)]_vars

\* C9 witness: an IO Borrow wrapper upcast from a live Device wrapper, with
\* the wrapper's own value.
C9_Witness ==
    /\ \E b \in BagToSet(borrowed) :
          /\ b.kind = "IO"
          /\ owned[b.owner] = "Device"
          /\ b.hdl = RefOfOwned(b.owner).hdl
          /\ last = Step(NoKind, TRUE, b.hdl, <<>>)
    /\ BagCardinality(borrowed) = 1

\* C10 as claimed: over the lifetime of a cache at most one upgrade call is
\* issued on behalf of each thread.
C10_AtMostOneUpgradeCall == \A t \in Threads : upgradeCalls[t] <= 1

\* C10 as amended: per thread at most one upgrade call succeeds over the
\* lifetime of a cache, and no upgrade call is issued or pending once one
\* has succeeded (calls that failed may be followed by a fresh call).
C10_AtMostOneSuccessfulUpgrade ==
    \A t \in Threads :
        /\ upgradeOks[t] <= 1
        /\ upgradeOks[t] = 1 =>
              /\ frame[t].pc # "UpgradeSharedHandle"
              /\ cache.live => slot[t] # Null

\* C10 witness: a thread resolved on its second upgrade call.
C10_Witness ==
    /\ cache.live
    /\ \E t \in Threads :
          upgradeCalls[t] = 2 /\ upgradeOks[t] = 1 /\ slot[t] # Null

\* C11: when share returns the allocation error, the step issued no
\* ShareHandle call, no cache exists, no thread is left inside share, every
\* slot is null, and the consumed wrapper's handle had exactly one destruction
\* call (its kind's destructor) and is owned by nothing any more.
C11_AllocFailureLeavesNothing ==
    (~last.ok /\ last.val = AllocError) =>
        /\ \A i \in DOMAIN last.calls : last.calls[i].fn # "ShareHandle"
        /\ ~cache.live
        /\ NoShareInFlight
        /\ slot = fresh_slots
        /\ \E h \in AllHandles :
              /\ last.calls = <<Call(MappedDestructor(last.kind), h)>>
              /\ owned[h] = NoKind
              /\ undestroyed[h] = 0

\* C11 witness: share of a File wrapper of handle 1 just failed to allocate
\* its slot.
C11_Witness ==
    /\ ntakes = 1
    /\ NothingOwned
    /\ last = Step("File", FALSE, AllocError, <<Call("CloseIOStream", 1)>>)

\* C12: whatever code a destruction call returns, destroy goes on to return
\* normally; the step that dropped the wrapper issued that one destruction
\* call only, the handle is accounted for and owned by nothing, so no further
\* destruction call can follow for it; and never are more destruction calls
\* issued for a handle than wrappers were taken for it.
C12_DestructorFailureDiscarded ==
    /\ \A h \in AllHandles : undestroyed[h] >= 0
    /\ dropped # <<>> =>
          /\ Len(dropped) = 1
          /\ dropped[1].completed
          /\ \E h \in AllHandles :
                /\ last.calls = <<Call(MappedDestructor(last.kind), h)>>
                /\ owned[h] = NoKind
                /\ ~HeldByShare(h)
                /\ undestroyed[h] = 0

\* C12 witness: a Thread wrapper went out of scope, DetachThread returned a
\* failure code, and the drop completed.
C12_Witness ==
    /\ ~cache.live
    /\ NoShareInFlight
    /\ NoUpgradeYet
    /\ NothingOwned
    /\ last = Step("Thread", TRUE, Null, <<Call("DetachThread", 1)>>)
    /\ dropped = <<[code |-> -1, completed |-> TRUE]>>

\* a step of a share call made by thread t
ShareStepBy(t) ==
    \/ \E h \in AllHandles : share_alloc_failed(t, h) \/ share(t, h)
    \/ \E code \in ErrorCodes : share_failed(t, code)
    \/ \E tok \in Tokens : share_succeeded(t, Success, tok)

\* a step of a try_get call made by thread t
TryGetStepBy(t) ==
    \/ TryGetBy(t)
    \/ \E code \in ErrorCodes : upgrade_failed(t, code)
    \/ \E h \in AllHandles : upgrade_succeeded(t, Success, h)

\* C13: a step of try_get or of share made by thread t leaves the slot of
\* every other thread as it was; the slots a successful share leaves written
\* are the creating thread's alone.
C13_SlotsAreThreadLocal ==
    [][\A t \in Threads :
          /\ (TryGetStepBy(t) \/ ShareStepBy(t))
                => \A u \in Threads \ {t} : slot'[u] = slot[u]
          /\ (\E tok \in Tokens : share_succeeded(t, Success, tok))
                => \A u \in Threads \ {t} : slot'[u] = Null]_vars

\* C13 witness: a thread other than the creator just resolved to a value of
\* its own while the creator's slot still holds the shared handle.
C13_Witness ==
    /\ cache.live
    /\ slot[cache.creator] = cache.hdl
    /\ \E t \in Threads :
          /\ t # cache.creator
          /\ slot[t] \notin {Null, cache.hdl}
          /\ upgradeCalls[t] = 1
          /\ last = Step(NoKind, TRUE, slot[t], <<>>)
    /\ nfailures = 0

\* C14: the step of share that calls the kernel issues exactly one ShareHandle
\* call, on the consumed wrapper's handle, and the steps that end share issue
\* none; the token of a live cache never changes; every upgrade call, issued
\* or pending, carries the cache's token.
C14_OneTokenForTheCache ==
    /\ [][/\ \A t \in Threads, h \in AllHandles :
                share(t, h) => last'.calls = <<Call("ShareHandle", h)>>
          /\ \A t \in Threads :
                (\/ \E code \in ErrorCodes : share_failed(t, code)
                 \/ \E tok \in Tokens : share_succeeded(t, Success, tok))
                    => \A i \in DOMAIN last'.calls :
                          last'.calls[i].fn # "ShareHandle"
          /\ (cache.live /\ cache'.live) => cache'.token = cache.token
          /\ \A t \in Threads :
                TryGetBy(t) =>
                    \A i \in DOMAIN last'.calls :
                        last'.calls[i] =
                            Call("UpgradeSharedHandle", cache.token)]_vars
    /\ [](\A t \in Threads :
            frame[t].pc = "UpgradeSharedHandle"
                => cache.live /\ frame[t].token = cache.token)

\* C14 witness: a thread is inside its first upgrade call, which carries the
\* token the kernel returned to share.
C14_Witness ==
    /\ cache.live
    /\ cache.token = "tokB"
    /\ \E t \in Threads :
          /\ frame[t].pc = "UpgradeSharedHandle"
          /\ frame[t].token = "tokB"
          /\ upgradeCalls[t] = 1
    /\ last.calls = <<Call("UpgradeSharedHandle", "tokB")>>

\* C15: while one cache lives, a slot that holds a non-null value keeps that
\* value in every step, whoever takes it; and a try_get of a thread whose slot
\* holds the non-null value v returns Ok(v) and issues no kernel call.
C15_ResolvedStaysResolved ==
    [][\A t \in Threads :
          /\ (cache.live /\ slot[t] # Null /\ cache'.live)
                => slot'[t] = slot[t]
          /\ (cache.live /\ slot[t] # Null /\ TryGetBy(t))
                => /\ last' = Step(NoKind, TRUE, slot[t], <<>>)
                   /\ frame'[t] = Idle]_vars

\* C15 witness: every thread is Resolved, the threads to different values,
\* and a try_get just returned the value of a thread that resolved earlier
\* through an upgrade.
C15_Witness ==
    /\ cache.live
    /\ \A t \in Threads : slot[t] # Null /\ frame[t] = Idle
    /\ \E t \in Threads :
          /\ t # cache.creator
          /\ upgradeOks[t] = 1
          /\ slot[t] # slot[cache.creator]
          /\ last = Step(NoKind, TRUE, slot[t], <<>>)
    /\ nfailures = 1

\* C16: one try_get call issues at most one upgrade call: the step that
\* starts it issues at most one, and the step that ends it, with an error or
\* with a value, issues none and leaves the thread outside the call. One share
\* call issues at most one ShareHandle call: the step that calls the kernel
\* issues one, and the steps that end it, whatever the result code, issue
\* none and leave the thread outside the call.
C16_NoAutomaticRetry ==
    [][\A t \in Threads :
          /\ TryGetBy(t)
                => /\ Len(last'.calls) <= 1
                   /\ upgradeCalls'[t] <= upgradeCalls[t] + 1
          /\ (\/ \E code \in ErrorCodes : upgrade_failed(t, code)
              \/ \E h \in AllHandles : upgrade_succeeded(t, Success, h))
                => /\ last'.calls = <<>>
                   /\ upgradeCalls'[t] = upgradeCalls[t]
                   /\ frame'[t] = Idle
          /\ \A code \in ErrorCodes :
                upgrade_failed(t, code) => ~last'.ok /\ last'.val = code
          /\ \A h \in AllHandles :
                share(t, h) =>
                    Cardinality({i \in DOMAIN last'.calls :
                                    last'.calls[i].fn = "ShareHandle"}) = 1
          /\ (\/ \E code \in ErrorCodes : share_failed(t, code)
              \/ \E tok \in Tokens : share_succeeded(t, Success, tok))
                => /\ \A i \in DOMAIN last'.calls :
                          last'.calls[i].fn \in Destructors
                   /\ frame'[t] = Idle]_vars

\* C16 witness: a try_get just returned the error of its one upgrade call,
\* and the thread is outside the call with its slot still null.
C16_Witness ==
    /\ cache.live
    /\ nfailures = 1
    /\ last = Step(NoKind, FALSE, -2, <<>>)
    /\ \E t \in Threads :
          /\ upgradeCalls[t] = 1
          /\ upgradeOks[t] = 0
          /\ slot[t] = Null
    /\ \A t \in Threads : frame[t] = Idle

\* a step that creates, copies or lets go of a Borrow wrapper
BorrowStep ==
    \/ \E src \in LiveRefs : borrow(src)
    \/ \E src \in LiveRefs, U \in Kinds : upcast(src, U)
    \/ \E b \in BagToSet(borrowed) : clone(b) \/ DropBorrowed(b)

\* C17: borrow, upcast, the copy of a Borrow wrapper and a Borrow wrapper
\* going out of scope issue no kernel call at all, and leave every Ownership
\* wrapper, its handle value and the destruction still owed to each handle as
\* they were; every live Borrow wrapper's owner is live and is owed exactly
\* its one destruction.
C17_BorrowNeverDestroys ==
    /\ [][BorrowStep =>
            /\ last'.calls = <<>>
            /\ dropped' = <<>>
            /\ owned' = owned
            /\ undestroyed' = undestroyed]_vars
    /\ [](\A b \in BagToSet(borrowed) :
            /\ owned[b.owner] # NoKind
            /\ RefOfOwned(b.owner).hdl = b.hdl
            /\ undestroyed[b.owner] = 1)

\* C17 witness: of two coexisting Borrow wrappers of the same owner one has
\* just gone out of scope; the other and the owner are live, and the handle
\* is still owed its one destruction.
C17_Witness ==
    /\ BagCardinality(borrowed) = 1
    /\ ntakes = 1
    /\ \E b \in BagToSet(borrowed) :
          /\ owned[b.owner] # NoKind
          /\ undestroyed[b.owner] = 1
    /\ last = Step(NoKind, TRUE, Null, <<>>)

\* C18: while a cache is live, no step has issued a destruction call for a
\* handle value that a thread's slot holds when the step is over: the step
\* that writes a slot, share's last, included.
C18_NoUseAfterDestroy ==
    cache.live =>
        \A t \in Threads :
            slot[t] # Null => Destructions(last.calls, slot[t]) = 0

\* C19: while a cache is live, a thread's slot is non-null exactly when the
\* thread is the creator of the cache or one of its upgrade calls returned
\* success, whatever handle value the kernel handed back.
C19_ResolvedIffCreatorOrUpgraded ==
    cache.live =>
        \A t \in Threads :
            slot[t] # Null <=> (t = cache.creator \/ upgradeOks[t] >= 1)

\* C20: under SpecLive, a thread whose slot is null while a cache is live is
\* Resolved in the end, unless the cache goes out of scope first, however
\* many of its upgrade calls failed before; and once Resolved it stays so for
\* as long as the cache lives.
C20_EventuallyResolved ==
    /\ \A t \in Threads :
          (cache.live /\ slot[t] = Null)
              ~> (slot[t] # Null \/ ~cache.live)
    /\ [][\A t \in Threads :
            (cache.live /\ slot[t] # Null /\ cache'.live)
                => slot'[t] # Null]_vars

\* C20 witness: a thread whose first upgrade call failed is Resolved by its
\* second, and a later try_get of it returned the resolved value.
C20_Witness ==
    /\ cache.live
    /\ nfailures = 1
    /\ \A t \in Threads : frame[t] = Idle
    /\ \E t \in Threads :
          /\ upgradeCalls[t] = 2
          /\ upgradeOks[t] = 1
          /\ slot[t] # Null
          /\ last = Step(NoKind, TRUE, slot[t], <<>>)

====
